---------------------------- MODULE Spec2Model ----------------------------
(***************************************************************************)
(* A model of consolidate_backend/main.py: the Excel ingestion service.    *)
(*                                                                         *)
(* The persisted state is the SQLite table excel_data (with its            *)
(* AUTOINCREMENT counter in sqlite_sequence) and the upload folder.  The   *)
(* three request handlers (UploadExcel.post, ListData.get,                 *)
(* DeleteAllData.delete) are the actions.  Text is modelled as a sequence  *)
(* of one-character strings so that strip(), lower() and endswith() are    *)
(* computed, not assumed.                                                  *)
(***************************************************************************)
EXTENDS Integers, Sequences, FiniteSets, TLC

VARIABLES
    store,     \* rows of table excel_data, in rowid order
    seqno,     \* sqlite_sequence.seq for excel_data (0: no row for the table)
    tempfs,    \* the upload folder: a set of [path, content]
    now,       \* the wall clock, in ticks
    ingested,  \* history: batches written since the last purge
    purged,    \* history: a purge has removed records
    resp,      \* what the last handler returned
    obs,       \* history: what the last handler was given and found
    pc,        \* concurrent uploads: each request's position in post()
    loc        \* concurrent uploads: each request's local variables

vars == <<store, seqno, tempfs, now, ingested, purged, resp, obs, pc, loc>>

---------------------------------------------------------------------------
(* Bounds of the model.                                                    *)

MaxRows == 2        \* rows of an enumerated short batch
MaxLong == 6        \* rows of the long batch
MaxBatches == 2     \* batches written between two purges
MaxClock == 1       \* last clock tick
MaxPage == 3        \* page numbers asked of the list operation
MaxPerPage == 2     \* page sizes asked of the list operation

---------------------------------------------------------------------------
(* Text: Python str as a sequence of characters.                           *)

Upper == <<"A","B","C","D","E","F","G","H","I","J","K","L","M",
           "N","O","P","Q","R","S","T","U","V","W","X","Y","Z">>
Lowercase == <<"a","b","c","d","e","f","g","h","i","j","k","l","m",
               "n","o","p","q","r","s","t","u","v","w","x","y","z">>
Whitespace == {" ", "\t", "\n", "\r"}
DigitChars == <<"0","1","2","3","4","5","6","7","8","9">>

\* a sequence, and a function, built by a constructor, with every element
\* worked out once
Tuple(f) == f \o <<>>
Map(f) == f @@ <<>>

LowerMap == [i \in 1..Len(Upper) |-> Lowercase[i]]
UpperIndex == [c \in {Upper[i] : i \in 1..Len(Upper)} |->
                 CHOOSE i \in 1..Len(Upper) : Upper[i] = c]

\* str.lower() of one character
LowerChar(c) == IF c \in DOMAIN UpperIndex THEN LowerMap[UpperIndex[c]] ELSE c

\* str.lower()
Lower(s) == Tuple([i \in 1..Len(s) |-> LowerChar(s[i])])

RECURSIVE LStrip(_)
LStrip(s) ==
    IF s # <<>> /\ Head(s) \in Whitespace THEN LStrip(Tail(s)) ELSE s

RECURSIVE RStrip(_)
RStrip(s) ==
    IF s # <<>> /\ s[Len(s)] \in Whitespace
    THEN RStrip(SubSeq(s, 1, Len(s) - 1))
    ELSE s

\* str.strip()
Strip(s) == RStrip(LStrip(s))

\* str.endswith(suffix)
EndsWith(s, suffix) ==
    /\ Len(s) >= Len(suffix)
    /\ SubSeq(s, Len(s) - Len(suffix) + 1, Len(s)) = suffix

\* a two-digit, zero-padded rendering of a clock tick (fixed width, as the
\* strftime and isoformat patterns are)
Digits2(n) == <<DigitChars[((n \div 10) % 10) + 1], DigitChars[(n % 10) + 1]>>

\* the least element of a set of numbers
FirstOf(m) == CHOOSE j \in m : \A l \in m : j <= l

FirstOrNone(m) == IF m = {} THEN 0 ELSE FirstOf(m)

\* position of the first x in sequence s (0 when absent)
IndexOf(s, x) == FirstOrNone({i \in 1..Len(s) : s[i] = x})

Range(s) == {s[i] : i \in 1..Len(s)}

RECURSIVE JoinText(_, _)
\* sep.join(parts) on message strings
JoinText(parts, sep) ==
    IF parts = <<>> THEN ""
    ELSE IF Len(parts) = 1 THEN parts[1]
    ELSE parts[1] \o sep \o JoinText(Tail(parts), sep)

Min(a, b) == IF a <= b THEN a ELSE b
Max(a, b) == IF a >= b THEN a ELSE b

---------------------------------------------------------------------------
(* Values: a cell of a DataFrame or of the table.                          *)

NaN == [k |-> "nan"]                  \* pandas missing value
Null == [k |-> "null"]                \* SQL NULL
Str(s) == [k |-> "str", s |-> s]      \* text
IntV(n) == [k |-> "int", n |-> n]     \* integer
NoneV == [k |-> "none"]               \* Python None

\* Python str(x) of a cell
PyStr(v) ==
    CASE v.k = "nan" -> <<"n","a","n">>
      [] v.k = "str" -> v.s
      [] v.k = "int" -> Digits2(v.n)
      [] OTHER -> <<"N","o","n","e">>

\* DataFrame.fillna('') on one cell
FillNa(v) == IF v.k = "nan" THEN Str(<<>>) ELSE v

\* Series.astype(str).str.strip() on one cell
AsStrStripped(v) == Str(Strip(PyStr(v)))

---------------------------------------------------------------------------
(* The schema.                                                             *)

\* the column names
c_id == "id"
c_srocode == "srocode"
c_internaldocumentnumber == "internaldocumentnumber"
c_docno == "docno"
c_docname == "docname"
c_registrationdate == "registrationdate"
c_sroname == "sroname"
c_micrno == "micrno"
c_bank_type == "bank_type"
c_party_code == "party_code"
c_sellerparty == "sellerparty"
c_purchaserparty == "purchaserparty"
c_propertydescription == "propertydescription"
c_areaname == "areaname"
c_consideration_amt == "consideration_amt"
c_marketvalue == "marketvalue"
c_dateofexecution == "dateofexecution"
c_stampdutypaid == "stampdutypaid"
c_registrationfees == "registrationfees"
c_status == "status"
c_file_name == "file_name"
c_upload_date == "upload_date"
c_data_hash == "data_hash"
c_remarks == "remarks"   \* a column excel_data lacks

\* how each column name is spelled
Spelling ==
    [id |-> <<"i","d">>,
     srocode |-> <<"s","r","o","c","o","d","e">>,
     internaldocumentnumber |-> <<"i","n","t","e","r","n","a","l","d","o","c","u","m","e","n","t","n","u","m","b","e","r">>,
     docno |-> <<"d","o","c","n","o">>,
     docname |-> <<"d","o","c","n","a","m","e">>,
     registrationdate |-> <<"r","e","g","i","s","t","r","a","t","i","o","n","d","a","t","e">>,
     sroname |-> <<"s","r","o","n","a","m","e">>,
     micrno |-> <<"m","i","c","r","n","o">>,
     bank_type |-> <<"b","a","n","k","_","t","y","p","e">>,
     party_code |-> <<"p","a","r","t","y","_","c","o","d","e">>,
     sellerparty |-> <<"s","e","l","l","e","r","p","a","r","t","y">>,
     purchaserparty |-> <<"p","u","r","c","h","a","s","e","r","p","a","r","t","y">>,
     propertydescription |-> <<"p","r","o","p","e","r","t","y","d","e","s","c","r","i","p","t","i","o","n">>,
     areaname |-> <<"a","r","e","a","n","a","m","e">>,
     consideration_amt |-> <<"c","o","n","s","i","d","e","r","a","t","i","o","n","_","a","m","t">>,
     marketvalue |-> <<"m","a","r","k","e","t","v","a","l","u","e">>,
     dateofexecution |-> <<"d","a","t","e","o","f","e","x","e","c","u","t","i","o","n">>,
     stampdutypaid |-> <<"s","t","a","m","p","d","u","t","y","p","a","i","d">>,
     registrationfees |-> <<"r","e","g","i","s","t","r","a","t","i","o","n","f","e","e","s">>,
     status |-> <<"s","t","a","t","u","s">>,
     file_name |-> <<"f","i","l","e","_","n","a","m","e">>,
     upload_date |-> <<"u","p","l","o","a","d","_","d","a","t","e">>,
     data_hash |-> <<"d","a","t","a","_","h","a","s","h">>,
     remarks |-> <<"r","e","m","a","r","k","s">>]

NameOf == [t \in {Spelling[n] : n \in DOMAIN Spelling} |->
             CHOOSE n \in DOMAIN Spelling : Spelling[n] = t]

\* the column a cleaned header cell names ("": none the model knows; every
\* header cell of the modelled files names one)
Column(t) == IF t \in DOMAIN NameOf THEN NameOf[t] ELSE ""

\* required_columns of UploadExcel.post
required_columns ==
    <<c_srocode, c_internaldocumentnumber, c_docno, c_docname,
      c_registrationdate, c_sroname, c_micrno, c_bank_type,
      c_party_code, c_sellerparty, c_purchaserparty, c_propertydescription,
      c_areaname, c_consideration_amt, c_marketvalue, c_dateofexecution,
      c_stampdutypaid, c_registrationfees, c_status>>

\* key_columns of calculate_data_hash; the WHERE clause of check_duplicate_data
key_columns ==
    <<c_docno, c_internaldocumentnumber, c_registrationdate,
      c_sellerparty, c_purchaserparty>>

\* the provenance columns post() adds
provenance_columns == <<c_file_name, c_upload_date, c_data_hash>>

\* the columns of CREATE TABLE excel_data
TableColumns == {c_id} \cup Range(required_columns) \cup Range(provenance_columns)

\* the file extensions post() accepts
ext_xls == <<".","x","l","s">>
ext_xlsx == <<".","x","l","s","x">>

UPLOAD_FOLDER == <<"u","p","l","o","a","d","s">>

---------------------------------------------------------------------------
(* DataFrames and files.                                                   *)
(*                                                                         *)
(* A DataFrame is [columns, rows]: the column names in order and each row  *)
(* as the sequence of its cells, in column order.  An uploaded file is     *)
(* [filename, content]; its content says whether the bytes start with a    *)
(* UTF-16 byte-order mark and what each pandas reader makes of the bytes:  *)
(* [ok |-> TRUE, tables] or [ok |-> FALSE, msg] (the exception's text).    *)
(* pd.read_html raises when it finds no table, so a successful read_html   *)
(* holds at least one table.                                               *)

Ok(tables) == [ok |-> TRUE, tables |-> tables]
Fail(msg) == [ok |-> FALSE, msg |-> msg]

\* df[col] of one row (col is among df.columns)
Cell(df, row, col) == row[IndexOf(df.columns, col)]

\* one try block of read_excel_file: the errors list after it and, when the
\* block returned, the DataFrame
Attempt(label, outcome, errors, tried, name) ==
    IF outcome.ok
    THEN [returned |-> TRUE, df |-> Head(outcome.tables),
          errors |-> errors, tried |-> Append(tried, name)]
    ELSE [returned |-> FALSE, df |-> NaN,
          errors |-> Append(errors, label \o outcome.msg),
          tried |-> Append(tried, name)]

NoSuchFile == Fail("[Errno 2] No such file or directory")

\* a later try block that runs although an earlier one returned
NextAttemptAnyway(a, label, outcome, name) ==
    Attempt(label, outcome, a.errors, a.tried, name)

\* a later try block: skipped when an earlier one returned
NextAttempt(a, label, outcome, name) ==
    IF a.returned THEN a ELSE Attempt(label, outcome, a.errors, a.tried, name)

\* the return or the final raise of read_excel_file
ReadResult(a) ==
    [ok |-> a.returned, df |-> a.df, tried |-> a.tried, errors |-> a.errors,
     msg |-> IF a.returned THEN ""
             ELSE "Failed to read Excel file. Errors: " \o JoinText(a.errors, "; ")]

\* what a reader makes of the file: nothing when it is not there
Seen(exists, outcome) == IF exists THEN outcome ELSE NoSuchFile

\* the first try block: the UTF-16 HTML reader runs only behind a byte-order
\* mark (a missing file makes open() raise)
HtmlAttempt(exists, content) ==
    IF exists /\ ~content.bom
    THEN [returned |-> FALSE, df |-> NaN, errors |-> <<>>, tried |-> <<>>]
    ELSE Attempt("UTF-16 HTML error: ", Seen(exists, content.html), <<>>, <<>>, "html")

\* read_excel_file(file_path): exists says whether file_path is there,
\* content is what it holds.  Returns [ok, df, tried, errors, msg]: tried
\* lists the readers that ran, msg is the text of the raised exception.
read_excel_file(exists, content) ==
    ReadResult(
      NextAttempt(
        NextAttempt(
          NextAttempt(HtmlAttempt(exists, content),
                      "Default engine error: ", Seen(exists, content.dflt), "default"),
          "openpyxl error: ", Seen(exists, content.openpyxl), "openpyxl"),
        "xlrd error: ", Seen(exists, content.xlrd), "xlrd"))

---------------------------------------------------------------------------
(* The steps of UploadExcel.post.                                          *)

\* df.empty: no rows or no columns
IsEmpty(df) == Len(df.rows) = 0 \/ Len(df.columns) = 0

\* df.columns = df.columns.str.strip().str.lower()
CleanColumns(df) ==
    [df EXCEPT !.columns = Tuple([i \in 1..Len(df.columns) |->
                                    Column(Lower(Strip(df.columns[i])))])]

\* missing_columns: the required columns df lacks, in required order
missing_columns(df) ==
    SelectSeq(required_columns, LAMBDA c : c \notin Range(df.columns))

\* params of check_duplicate_data for one row: the key cells through
\* str(...).strip()
KeyParams(df, row) ==
    Tuple([i \in 1..Len(key_columns) |->
              Strip(PyStr(Cell(df, row, key_columns[i])))])

\* the rows of excel_data the SELECT of check_duplicate_data matches; a NULL
\* column equals nothing
Matching(table, params) ==
    {j \in 1..Len(table) :
        \A i \in 1..Len(key_columns) :
            table[j][key_columns[i]] = Str(params[i])}

\* the pair check_duplicate_data returns: the flag and the message, which is
\* "", the duplicate text with the file it names, or str(e)
DupResult(flag, kind, file, message) ==
    [is_duplicate |-> flag, kind |-> kind, file |-> file, message |-> message]

\* str(e) of a query that raised
QueryError == "database is locked"

RECURSIVE DuplicateScan(_, _, _, _)
\* the loop of check_duplicate_data from row i on.  The query of row failAt
\* raises (0: none does), which the except clause turns into (False, str(e)).
\* LIMIT 1 takes the match idx_duplicate_check yields first, the one of
\* lowest rowid.
DuplicateScan(df, table, i, failAt) ==
    IF i > Len(df.rows) THEN DupResult(FALSE, "none", Null, "")
    ELSE IF i = failAt THEN DupResult(FALSE, "store_error", Null, QueryError)
    ELSE IF Matching(table, KeyParams(df, df.rows[i])) # {}
    THEN DupResult(TRUE, "duplicate",
             table[FirstOf(Matching(table, KeyParams(df, df.rows[i])))][c_file_name],
             "Duplicate data found")
    ELSE DuplicateScan(df, table, i + 1, failAt)

\* check_duplicate_data with the except clause reporting a duplicate
check_duplicate_data_closed(df, table, failAt) ==
    IF DuplicateScan(df, table, 1, failAt).kind = "store_error"
    THEN DupResult(TRUE, "store_error", Null, QueryError)
    ELSE DuplicateScan(df, table, 1, failAt)

\* check_duplicate_data(df, conn)
check_duplicate_data(df, table, failAt) == DuplicateScan(df, table, 1, failAt)

HexChars == <<"0","1","2","3","4","5","6","7","8","9","a","b","c","d","e","f">>

\* calculate_data_hash(df).  The bytes hashed are those of an object array,
\* the addresses of its strings, so the digest is an input (addr) and not a
\* function of the cells; a missing key column raises and gives None.
calculate_data_hash(df, addr) ==
    IF \A i \in 1..Len(key_columns) : key_columns[i] \in Range(df.columns)
    THEN Str(<<HexChars[((addr \div 16) % 16) + 1], HexChars[(addr % 16) + 1]>>)
    ELSE NoneV

\* df[name] = value: replaces the column or appends it
SetColumn(df, name, value) ==
    IF name \in Range(df.columns)
    THEN [df EXCEPT !.rows = Tuple([r \in 1..Len(df.rows) |->
            [df.rows[r] EXCEPT ![IndexOf(df.columns, name)] = value]])]
    ELSE [columns |-> Append(df.columns, name),
          rows |-> Tuple([r \in 1..Len(df.rows) |-> Append(df.rows[r], value)])]

\* df.fillna('')
FillNaFrame(df) ==
    [df EXCEPT !.rows = Tuple([r \in 1..Len(df.rows) |->
        Tuple([i \in 1..Len(df.rows[r]) |-> FillNa(df.rows[r][i])])])]

\* df[column] = df[column].astype(str).str.strip(), for every column
AsStrFrame(df) ==
    [df EXCEPT !.rows = Tuple([r \in 1..Len(df.rows) |->
        Tuple([i \in 1..Len(df.rows[r]) |-> AsStrStripped(df.rows[r][i])])])]

\* df['data_hash'] = calculate_data_hash(df)
SetHash(df, addr) == SetColumn(df, c_data_hash, calculate_data_hash(df, addr))

\* "Process data" and "Convert all columns to string" of post()
ProcessData(df, filename, upload_date, addr) ==
    AsStrFrame(
      SetHash(
        SetColumn(SetColumn(FillNaFrame(df), c_file_name, Str(filename)),
                  c_upload_date, Str(upload_date)),
        addr))

\* the largest rowid of the table (0 when empty)
RECURSIVE MaxRowIdFrom(_, _, _)
MaxRowIdFrom(table, j, m) ==
    IF j > Len(table) THEN m
    ELSE MaxRowIdFrom(table, j + 1, Max(m, table[j][c_id].n))

MaxRowId(table) == MaxRowIdFrom(table, 1, 0)

\* df.to_sql('excel_data', conn, if_exists='append', index=False): one INSERT
\* naming df's columns, in one transaction.  A column the table lacks makes
\* the statement fail before any row is written.  id is not among df's
\* columns in any modelled file, so AUTOINCREMENT numbers the rows from
\* max(sqlite_sequence.seq, largest rowid) + 1; the other columns df lacks
\* are NULL.
\* the rows of the INSERT: at[c] is the place of column c in df (0: absent)
Insert(df, table, seq, base, at) ==
    [ok |-> TRUE,
     table |-> table \o [r \in 1..Len(df.rows) |->
                            Map([c \in TableColumns |->
                                    IF c = c_id THEN IntV(base + r)
                                    ELSE IF at[c] # 0 THEN df.rows[r][at[c]]
                                    ELSE Null])],
     seq |-> IF df.rows = <<>> THEN seq ELSE base + Len(df.rows)]

\* to_sql into a table with a unique index on the business key: the INSERT
\* fails when a row's key is stored already
to_sql_unique(df, table, seq) ==
    IF \E r \in 1..Len(df.rows) : Matching(table, KeyParams(df, df.rows[r])) # {}
    THEN [ok |-> FALSE, table |-> table, seq |-> seq]
    ELSE Insert(df, table, seq, Max(seq, MaxRowId(table)),
                Map([c \in TableColumns |-> IndexOf(df.columns, c)]))

to_sql(df, table, seq) ==
    IF \E i \in 1..Len(df.columns) : df.columns[i] \notin TableColumns
    THEN [ok |-> FALSE, table |-> table, seq |-> seq]
    ELSE Insert(df, table, seq, Max(seq, MaxRowId(table)),
                Map([c \in TableColumns |-> IndexOf(df.columns, c)]))

\* df.head(5).to_dict('records'): the first rows, each under df's column
\* names
PreviewRows == 5

\* the preview without head(5): every row
PreviewAll(df) == [columns |-> df.columns, rows |-> df.rows]

Preview(df) ==
    [columns |-> df.columns,
     rows |-> SubSeq(df.rows, 1, Min(PreviewRows, Len(df.rows)))]

\* datetime.now().strftime('%Y%m%d_%H%M%S') and datetime.now().isoformat()
Timestamp(t) == Digits2(t)
IsoFormat(t) == Digits2(t) \o <<"T">>

\* filename and filepath of post()
StoredName(t, name) == Timestamp(t) \o <<"_">> \o name
FilePath(filename) == UPLOAD_FOLDER \o <<"/">> \o filename

\* the upload folder with path written, and with path removed
WriteFile(fs, path, content) ==
    {e \in fs : e.path # path} \cup {[path |-> path, content |-> content]}
RemoveFile(fs, path) == {e \in fs : e.path # path}
Exists(fs, path) == \E e \in fs : e.path = path
ReadFile(fs, path) == (CHOOSE e \in fs : e.path = path).content

---------------------------------------------------------------------------
(* UploadExcel.post, one block at a time.                                  *)
(*                                                                         *)
(* l holds the request's local variables and l.pos the block it is about   *)
(* to run; sh = [fs, table, seq, t] is what it shares with other requests  *)
(* (upload folder, table, sqlite_sequence, clock); env = [save, failAt,    *)
(* addr] is what the environment decides: how file.save ends ("ok",        *)
(* "refused": raised before the file was created, "partial": raised after  *)
(* some bytes were written), which duplicate query raises, and the bytes   *)
(* calculate_data_hash hashes.                                             *)

NoFile == [filename |-> <<>>, content |-> NaN]

\* what a file holds when file.save stopped part-way: no reader accepts it
Truncated(content) ==
    [bom |-> content.bom, html |-> Fail("truncated"), dflt |-> Fail("truncated"),
     openpyxl |-> Fail("truncated"), xlrd |-> Fail("truncated")]

NoResp == [code |-> 0]
ErrorResp(code, kind, detail) == [code |-> code, error |-> kind, detail |-> detail]

NoDup == DupResult(FALSE, "unchecked", Null, "")
NoDf == [columns |-> <<>>, rows |-> <<>>]

\* the locals of a request that has parsed its arguments
Locals(f) ==
    [pos |-> "begin", file |-> f, filename |-> <<>>, filepath |-> <<>>,
     started |-> FALSE, df |-> NoDf, dup |-> NoDup, wrote |-> FALSE,
     tried |-> <<>>, resp |-> NoResp]

Shared(fs, table, seq, t) == [fs |-> fs, table |-> table, seq |-> seq, t |-> t]

\* lines 227-240: the argument checks and the unique file name
PostBegin(l, sh) ==
    IF l.file = NoFile
    THEN [l |-> [l EXCEPT !.pos = "done",
                          !.resp = ErrorResp(400, "no_file", <<>>)], sh |-> sh]
    ELSE IF ~(EndsWith(l.file.filename, ext_xls) \/ EndsWith(l.file.filename, ext_xlsx))
    THEN [l |-> [l EXCEPT !.pos = "done",
                          !.resp = ErrorResp(400, "invalid_type", <<>>)], sh |-> sh]
    ELSE [l |-> [l EXCEPT !.pos = "save",
                          !.filename = StoredName(sh.t, l.file.filename),
                          !.filepath = FilePath(StoredName(sh.t, l.file.filename))],
          sh |-> sh]

\* lines 242-248: file.save(filepath); a failure returns at once
PostSave(l, sh, env) ==
    CASE env.save = "refused" ->
            [l |-> [l EXCEPT !.pos = "done",
                             !.resp = ErrorResp(500, "save", <<>>)], sh |-> sh]
      [] env.save = "partial" ->
            [l |-> [l EXCEPT !.pos = "done", !.started = TRUE,
                             !.resp = ErrorResp(500, "save", <<>>)],
             sh |-> [sh EXCEPT !.fs = WriteFile(sh.fs, l.filepath,
                                                Truncated(l.file.content))]]
      [] OTHER ->
            [l |-> [l EXCEPT !.pos = "read", !.started = TRUE],
             sh |-> [sh EXCEPT !.fs = WriteFile(sh.fs, l.filepath, l.file.content)]]

\* lines 250-271: read the file, refuse an empty table, clean the column
\* names, refuse a table that lacks a required column
\* the raise of the try block, caught at line 301
Raise(l, sh, kind, detail) ==
    [l |-> [l EXCEPT !.pos = "finally", !.resp = ErrorResp(500, kind, detail)],
     sh |-> sh]

Validate(l, sh, d, missing) ==
    IF missing # <<>> THEN Raise(l, sh, "missing_columns", missing)
    ELSE [l |-> [l EXCEPT !.pos = "check", !.df = d], sh |-> sh]

Cleaned(l, sh, d) == Validate(l, sh, d, missing_columns(d))

Decoded(l, sh, r) ==
    IF ~r.ok THEN Raise([l EXCEPT !.tried = r.tried], sh, "decode", r.msg)
    ELSE IF IsEmpty(r.df) THEN Raise([l EXCEPT !.tried = r.tried], sh, "empty", <<>>)
    ELSE Cleaned([l EXCEPT !.tried = r.tried], sh, CleanColumns(r.df))

PostRead(l, sh) ==
    Decoded(l, sh,
        IF Exists(sh.fs, l.filepath)
        THEN read_excel_file(TRUE, ReadFile(sh.fs, l.filepath))
        ELSE read_excel_file(FALSE, l.file.content))

\* the duplicate check with its flag dropped: the raise of line 277 left out
CheckedFlagDropped(l, sh, c) ==
    [l |-> [l EXCEPT !.pos = "write", !.dup = c], sh |-> sh]

\* lines 273-277: the duplicate check; only a found duplicate raises
Checked(l, sh, c) ==
    IF c.is_duplicate
    THEN Raise([l EXCEPT !.dup = c], sh, "duplicate", c.file)
    ELSE [l |-> [l EXCEPT !.pos = "write", !.dup = c], sh |-> sh]

PostCheck(l, sh, env) ==
    Checked(l, sh, check_duplicate_data(l.df, sh.table, env.failAt))

\* lines 279-299: provenance, conversion to text, the bulk write, the result
Written(l, sh, p, w) ==
    IF ~w.ok THEN Raise(l, sh, "store", <<>>)
    ELSE [l |-> [l EXCEPT !.pos = "finally", !.wrote = TRUE,
                          !.resp = [code |-> 200,
                                    filename |-> l.filename,
                                    rows_processed |-> Len(p.rows),
                                    preview |-> Preview(p)]],
          sh |-> [sh EXCEPT !.table = w.table, !.seq = w.seq]]

Processed(l, sh, p) == Written(l, sh, p, to_sql(p, sh.table, sh.seq))

PostWrite(l, sh, env) ==
    Processed(l, sh, ProcessData(l.df, l.filename, IsoFormat(sh.t), env.addr))

\* lines 304-307: the finally clause
PostFinally(l, sh) ==
    [l |-> [l EXCEPT !.pos = "done"],
     sh |-> [sh EXCEPT !.fs = RemoveFile(sh.fs, l.filepath)]]

\* the block at l.pos
PostStep(l, sh, env) ==
    CASE l.pos = "begin" -> PostBegin(l, sh)
      [] l.pos = "save" -> PostSave(l, sh, env)
      [] l.pos = "read" -> PostRead(l, sh)
      [] l.pos = "check" -> PostCheck(l, sh, env)
      [] l.pos = "write" -> PostWrite(l, sh, env)
      [] l.pos = "finally" -> PostFinally(l, sh)
      [] OTHER -> [l |-> l, sh |-> sh]

RECURSIVE PostRest(_, _)
\* post() run from the block at n.l.pos to its return with no other request
\* in between
PostRest(n, env) ==
    IF n.l.pos = "done" THEN n ELSE PostRest(PostStep(n.l, n.sh, env), env)

PostRun(l, sh, env) == PostRest([l |-> l, sh |-> sh], env)

\* history: the key cells of a batch as decoded, row by row
BatchKeys(df) ==
    Tuple([r \in 1..Len(df.rows) |->
        Tuple([i \in 1..Len(key_columns) |-> Cell(df, df.rows[r], key_columns[i])])])

Ingest(hist, l) ==
    IF l.wrote THEN Append(hist, [keys |-> BatchKeys(l.df), file_name |-> l.filename])
    ELSE hist

---------------------------------------------------------------------------
(* ListData.get and DeleteAllData.delete.                                  *)

\* the characters of the model in code-point order, for SQLite's BINARY
\* collation
CodePoints ==
    <<"\t", "\n", "\r", " ", "+", ",", "-", ".", "/">> \o DigitChars \o <<":">>
    \o Upper \o <<"_">> \o Lowercase

CodeOf == [c \in Range(CodePoints) |-> IndexOf(CodePoints, c)]

Code(c) == IF c \in DOMAIN CodeOf THEN CodeOf[c] ELSE 0

RECURSIVE TextLess(_, _)
\* memcmp order of two texts
TextLess(a, b) ==
    IF b = <<>> THEN FALSE
    ELSE IF a = <<>> THEN TRUE
    ELSE IF Head(a) = Head(b) THEN TextLess(Tail(a), Tail(b))
    ELSE Code(Head(a)) < Code(Head(b))

\* SQLite's order of two column values: NULL, then integers, then text
ValueLess(v, w) ==
    CASE v.k = "null" -> w.k # "null"
      [] v.k = "int" -> (w.k = "int" /\ v.n < w.n) \/ w.k = "str"
      [] v.k = "str" -> w.k = "str" /\ TextLess(v.s, w.s)
      [] OTHER -> FALSE

\* ORDER BY sort_by order.  Rows equal in sort_by come in an order SQL leaves
\* open: tie says whether the engine hands them out in rising or falling
\* rowid.  The result lists the rows of table in output order.
OrderBy(table, sort_by, order, tie) ==
    LET n == Len(table)
        key(j) == table[j][sort_by]
        before(i, j) ==
            \/ IF order = "ASC" THEN ValueLess(key(i), key(j))
                                ELSE ValueLess(key(j), key(i))
            \/ /\ ~ValueLess(key(i), key(j)) /\ ~ValueLess(key(j), key(i))
               /\ IF tie = "rising" THEN i < j ELSE j < i
        rank(j) == 1 + Cardinality({i \in 1..n : i # j /\ before(i, j)})
    IN  Tuple([pos \in 1..n |-> table[CHOOSE j \in 1..n : rank(j) = pos]])

\* the page without its OFFSET: the first rows
LimitOnly(rows, per_page, offset) == SubSeq(rows, 1, Min(Len(rows), per_page))

\* LIMIT per_page OFFSET offset: a negative OFFSET counts as 0, a negative
\* LIMIT as no limit
LimitOffset(rows, per_page, offset) ==
    LET from == Max(offset, 0) + 1
        to == IF per_page < 0 THEN Len(rows)
              ELSE Min(Len(rows), Max(offset, 0) + per_page)
    IN  SubSeq(rows, from, to)

IsDigits(s) == s # <<>> /\ \A i \in 1..Len(s) : Code(s[i]) \in Code("0")..Code("9")

RECURSIVE ParseNat(_)
ParseNat(s) ==
    IF s = <<>> THEN 0
    ELSE 10 * ParseNat(SubSeq(s, 1, Len(s) - 1)) + (Code(s[Len(s)]) - Code("0"))

RECURSIVE NatDigits(_)
NatDigits(n) ==
    IF n < 10 THEN <<DigitChars[n + 1]>>
    ELSE NatDigits(n \div 10) \o <<DigitChars[(n % 10) + 1]>>

RECURSIVE Grouped(_)
\* the digits of n with a comma before every group of three
Grouped(n) ==
    IF n < 1000 THEN NatDigits(n)
    ELSE Grouped(n \div 1000) \o <<",">>
         \o <<DigitChars[((n % 1000) \div 100) + 1]>> \o Digits2(n % 100)

\* "{:,.2f}".format(float(s)), or s when float(s) raises.  float() is
\* modelled for a signed decimal numeral (digits, with or without a point);
\* more than two fraction digits are rounded on the third, which is what the
\* binary value gives except at an exact tie.  No modelled cell holds an
\* exponent, inf or nan.
FormatNumber(s) ==
    LET signed == s # <<>> /\ Head(s) \in {"-", "+"}
        body == IF signed THEN Tail(s) ELSE s
        dot == IndexOf(body, ".")
        ip == IF dot = 0 THEN body ELSE SubSeq(body, 1, dot - 1)
        fp == IF dot = 0 THEN <<>> ELSE SubSeq(body, dot + 1, Len(body))
        valid == /\ ip = <<>> \/ IsDigits(ip)
                 /\ fp = <<>> \/ IsDigits(fp)
                 /\ ip # <<>> \/ fp # <<>>
        f3 == fp \o <<"0", "0", "0">>
        cents == 100 * ParseNat(ip) + ParseNat(SubSeq(f3, 1, 2))
                 + (IF Code(f3[3]) >= Code("5") THEN 1 ELSE 0)
        neg == signed /\ Head(s) = "-"
    IN  IF ~valid THEN s
        ELSE (IF neg THEN <<"-">> ELSE <<>>)
             \o Grouped(cents \div 100) \o <<".">> \o Digits2(cents % 100)

DaysInMonth(y, m) ==
    CASE m \in {4, 6, 9, 11} -> 30
      [] m = 2 -> IF (y % 4 = 0 /\ y % 100 # 0) \/ y % 400 = 0 THEN 29 ELSE 28
      [] OTHER -> 31

\* datetime.strptime(s, '%Y-%m-%d').strftime('%Y-%m-%d'), or s when strptime
\* raises: four digits of year, one or two of month and of day, a date of
\* the calendar.  Years from 1000 on, which strftime prints in four digits.
FormatDate(s) ==
    LET dashes == {i \in 1..Len(s) : s[i] = "-"}
        d1 == CHOOSE i \in dashes : \A j \in dashes : i <= j
        d2 == CHOOSE i \in dashes : \A j \in dashes : j <= i
        ys == SubSeq(s, 1, d1 - 1)
        ms == SubSeq(s, d1 + 1, d2 - 1)
        ds == SubSeq(s, d2 + 1, Len(s))
        shaped == /\ Cardinality(dashes) = 2
                  /\ Len(ys) = 4 /\ IsDigits(ys)
                  /\ Len(ms) \in {1, 2} /\ IsDigits(ms)
                  /\ Len(ds) \in {1, 2} /\ IsDigits(ds)
    IN  IF ~shaped THEN s
        ELSE IF \/ ParseNat(ys) < 1000
                \/ ParseNat(ms) \notin 1..12
                \/ ParseNat(ds) \notin 1..DaysInMonth(ParseNat(ys), ParseNat(ms))
        THEN s
        ELSE ys \o <<"-">> \o Digits2(ParseNat(ms)) \o <<"-">> \o Digits2(ParseNat(ds))

date_fields == {c_registrationdate, c_dateofexecution, c_upload_date}
num_fields == {c_consideration_amt, c_marketvalue, c_stampdutypaid, c_registrationfees}

\* "Format dates" and "Format numbers" on one row of the result; an empty
\* or NULL field is left alone
FormatRecord(row) ==
    Map([c \in DOMAIN row |->
        IF row[c].k = "str" /\ row[c].s # <<>> /\ c \in date_fields
        THEN Str(FormatDate(row[c].s))
        ELSE IF row[c].k = "str" /\ row[c].s # <<>> /\ c \in num_fields
        THEN Str(FormatNumber(row[c].s))
        ELSE row[c]])

\* the dictionary get() returns: rows is the fetched page
ListBody(q, total, rows) ==
    [code |-> 200,
     data |-> Tuple([i \in 1..Len(rows) |-> FormatRecord(rows[i])]),
     total |-> total,
     page |-> q.page,
     per_page |-> q.per_page,
     total_pages |-> (total + q.per_page - 1) \div q.per_page]

\* the direction ORDER BY takes from the text after the column: none given
\* means ascending
Direction(order) == IF order = "" THEN "ASC" ELSE order

\* get(): q = [page, per_page, sort_by, order] are the request's arguments
\* (order already upper-cased).  A sort_by that is no column, an order that
\* is neither empty nor a direction, and per_page = 0 (the division) raise,
\* which the handler answers with 500.
ListResult(table, q, tie) ==
    IF q.sort_by \notin TableColumns \/ q.order \notin {"ASC", "DESC", ""}
    THEN ErrorResp(500, "fetch", <<>>)
    ELSE IF q.per_page = 0 THEN ErrorResp(500, "fetch", <<>>)
    ELSE ListBody(q, Len(table),
                  LimitOffset(OrderBy(table, q.sort_by, Direction(q.order), tie),
                              q.per_page, (q.page - 1) * q.per_page))

\* delete() without the DELETE FROM sqlite_sequence
DeleteKeepsSequence(table, seq) ==
    [resp |-> [code |-> 200, records_deleted |-> Len(table)],
     table |-> <<>>, seq |-> seq]

\* delete(): count, DELETE FROM excel_data, DELETE FROM sqlite_sequence
DeleteResult(table, seq) ==
    [resp |-> [code |-> 200, records_deleted |-> Len(table)],
     table |-> <<>>, seq |-> 0]

---------------------------------------------------------------------------
(* The requests of the model.                                              *)

\* the cell of a row under a column unless the row says otherwise
BaseCell(c) ==
    IF c \in {c_registrationdate, c_dateofexecution}
    THEN Str(<<"2","0","2","4","-","1","-","5">>)
    ELSE IF c \in num_fields THEN Str(<<"1","2","3","4",".","5">>)
    ELSE Str(<<"v">>)

\* rows, as the cells that differ from BaseCell
RowA == c_docno :> Str(<<"a">>)
RowAy == (c_docno :> Str(<<"a">>)) @@ (c_status :> Str(<<"y">>))
RowAw == c_docno :> Str(<<" ","a"," ">>)
RowN == c_docno :> NaN
RowB == (c_docno :> Str(<<"b">>)) @@ (c_marketvalue :> Str(<<"n","/","a">>))
RowNum(i) == c_docno :> Str(Digits2(i))

Rows == {RowA, RowN}

\* header rows: the names as the schema spells them, with one cell in
\* capitals and padded, without docno, and with one column more
HeaderExact == Tuple([i \in 1..Len(required_columns) |-> Spelling[required_columns[i]]])
HeaderRaw == [HeaderExact EXCEPT ![3] = <<" ","D","o","c","N","o"," ">>]
HeaderMissing == SelectSeq(HeaderExact, LAMBDA t : t # Spelling[c_docno])
HeaderExtra == Append(HeaderExact, Spelling[c_remarks])

\* the DataFrame a reader makes of a sheet with this header and these rows
Table(header, rows) ==
    [columns |-> header,
     rows |-> Tuple([r \in 1..Len(rows) |->
                Tuple([i \in 1..Len(header) |->
                    IF Column(Lower(Strip(header[i]))) \in DOMAIN rows[r]
                    THEN rows[r][Column(Lower(Strip(header[i])))]
                    ELSE BaseCell(Column(Lower(Strip(header[i]))))])])]

name_xlsx == <<"a",".","x","l","s","x">>
name_xls == <<"b",".","x","l","s">>
name_csv == <<"c",".","c","s","v">>

\* an .xlsx workbook, an .xls workbook, the UTF-16 HTML export, and bytes no
\* reader accepts
XlsxFile(name, df) ==
    [filename |-> name,
     content |-> [bom |-> FALSE, html |-> Fail("No tables found"),
                  dflt |-> Ok(<<df>>), openpyxl |-> Ok(<<df>>),
                  xlrd |-> Fail("Unsupported format, or corrupt file")]]
XlsFile(name, df) ==
    [filename |-> name,
     content |-> [bom |-> FALSE, html |-> Fail("No tables found"),
                  dflt |-> Ok(<<df>>), openpyxl |-> Fail("File is not a zip file"),
                  xlrd |-> Ok(<<df>>)]]
HtmlFile(name, dfs) ==
    [filename |-> name,
     content |-> [bom |-> TRUE, html |-> Ok(dfs),
                  dflt |-> Fail("Excel file format cannot be determined"),
                  openpyxl |-> Fail("File is not a zip file"),
                  xlrd |-> Fail("Unsupported format, or corrupt file")]]
CorruptFile(name) ==
    [filename |-> name,
     content |-> [bom |-> FALSE, html |-> Fail("No tables found"),
                  dflt |-> Fail("Excel file format cannot be determined"),
                  openpyxl |-> Fail("File is not a zip file"),
                  xlrd |-> Fail("Unsupported format, or corrupt file")]]

\* the batches of one row repeated, none to MaxRows times
ShortBatches == {Tuple([i \in 1..n |-> r]) : r \in Rows, n \in 0..MaxRows}
LongBatch == Tuple([i \in 1..MaxLong |-> RowNum(i)])

\* the files of well-formed batches
Files ==
    {XlsxFile(name_xlsx, Table(HeaderExact, b)) : b \in ShortBatches \cup {LongBatch}}
    \cup {XlsFile(name_xls, Table(HeaderExact, <<RowB, RowAy>>))}

\* files post() refuses at one step or another, and some it accepts
FilesRefused ==
    {NoFile,
     XlsxFile(name_csv, Table(HeaderExact, <<RowB>>)),
     CorruptFile(name_xlsx),
     XlsxFile(name_xlsx, Table(HeaderExact, <<>>)),
     XlsxFile(name_xlsx, Table(HeaderMissing, <<RowA>>)),
     XlsxFile(name_xlsx, Table(HeaderExtra, <<RowB>>)),
     XlsxFile(name_xlsx, Table(HeaderExact, <<RowA>>)),
     XlsxFile(name_xlsx, Table(HeaderExact, <<RowAw>>)),
     XlsFile(name_xls, Table(HeaderExact, <<RowB, RowAy>>)),
     HtmlFile(name_xls, <<Table(HeaderRaw, <<RowB>>), Table(HeaderExact, <<RowA>>)>>)}

Addrs == {7, 200}

DefaultQuery == [page |-> 1, per_page |-> 10, sort_by |-> c_upload_date, order |-> "DESC"]
NoQuery == [page |-> 0, per_page |-> 0, sort_by |-> <<>>, order |-> ""]
Ties == {"rising", "falling"}

Procs == {1, 2}

---------------------------------------------------------------------------
(* The service, one request at a time.                                     *)

\* history: what a finished post() leaves to be seen
Observe(op, l, q) ==
    [op |-> op, keys |-> BatchKeys(l.df), started |-> l.started,
     filepath |-> l.filepath, dup |-> l.dup, wrote |-> l.wrote, q |-> q]

Init ==
    /\ store = <<>>
    /\ seqno = 0
    /\ tempfs = {}
    /\ now = 0
    /\ ingested = <<>>
    /\ purged = FALSE
    /\ resp = NoResp
    /\ obs = Observe("none", Locals(NoFile), NoQuery)
    /\ pc = [p \in Procs |-> "idle"]
    /\ loc = [p \in Procs |-> Locals(NoFile)]

\* POST /api/files/upload
Returned(r) ==
    /\ store' = r.sh.table
    /\ seqno' = r.sh.seq
    /\ tempfs' = r.sh.fs
    /\ ingested' = Ingest(ingested, r.l)
    /\ resp' = r.l.resp
    /\ obs' = Observe("upload", r.l, NoQuery)
    /\ UNCHANGED <<now, purged, pc, loc>>

Upload(f, env) ==
    /\ Len(ingested) < MaxBatches
    /\ Returned(PostRun(Locals(f), Shared(tempfs, store, seqno, now), env))

\* GET /api/data/list
List(q, tie) ==
    /\ resp' = ListResult(store, q, tie)
    /\ obs' = Observe("list", Locals(NoFile), q)
    /\ UNCHANGED <<store, seqno, tempfs, now, ingested, purged, pc, loc>>

\* DELETE /api/data/delete-all
Purge ==
    /\ store' = DeleteResult(store, seqno).table
    /\ seqno' = DeleteResult(store, seqno).seq
    /\ ingested' = <<>>
    /\ purged' = (purged \/ store # <<>>)
    /\ resp' = DeleteResult(store, seqno).resp
    /\ obs' = Observe("purge", Locals(NoFile), NoQuery)
    /\ UNCHANGED <<tempfs, now, pc, loc>>

\* the clock moves on
Tick ==
    /\ now < MaxClock
    /\ now' = now + 1
    /\ UNCHANGED <<store, seqno, tempfs, ingested, purged, resp, obs, pc, loc>>

\* what the environment may decide for a request: how file.save ends, which
\* query of the duplicate check raises, the bytes the hash is taken of
Env(saves, fails, addrs) ==
    {[save |-> s, failAt |-> i, addr |-> a] : s \in saves, i \in fails, a \in addrs}

Next ==
    \/ \E f \in Files, env \in Env({"ok"}, {0}, {7}) : Upload(f, env)
    \/ Purge
    \/ Tick

Spec == Init /\ [][Next]_vars

---------------------------------------------------------------------------
(* The service under uploads that fail.                                    *)

NextRefused ==
    \/ \E f \in FilesRefused, env \in Env({"ok", "refused"}, {0}, {7}) : Upload(f, env)
    \/ \E tie \in Ties : List(DefaultQuery, tie)
    \/ Purge
    \/ Tick

SpecRefused == Init /\ [][NextRefused]_vars

---------------------------------------------------------------------------
(* The service when file.save can stop part-way.                           *)

FilesSave ==
    {XlsxFile(name_xlsx, Table(HeaderExact, <<RowA>>)),
     XlsFile(name_xls, Table(HeaderExact, <<RowN>>)),
     XlsxFile(name_xlsx, Table(HeaderMissing, <<RowA>>)),
     XlsxFile(name_xlsx, Table(HeaderExtra, <<RowB>>)),
     XlsxFile(name_xlsx, Table(HeaderExact, <<>>)),
     CorruptFile(name_xls),
     XlsxFile(name_csv, Table(HeaderExact, <<RowB>>))}

NextSave ==
    \/ \E f \in FilesSave, env \in Env({"ok", "refused", "partial"}, {0}, {7}) :
          Upload(f, env)
    \/ Purge
    \/ Tick

SpecSave == Init /\ [][NextSave]_vars

---------------------------------------------------------------------------
(* The service when a query of the duplicate check can raise.              *)

FilesOutage ==
    {XlsxFile(name_xlsx, Table(HeaderExact, b)) : b \in ShortBatches}
    \cup {XlsxFile(name_xlsx, Table(HeaderExact, <<RowB, RowAy>>)),
          XlsxFile(name_xlsx, Table(HeaderExtra, <<RowB>>))}

NextOutage ==
    \/ \E f \in FilesOutage, env \in Env({"ok"}, 0..MaxRows, {7}) : Upload(f, env)
    \/ Purge

SpecOutage == Init /\ [][NextOutage]_vars

---------------------------------------------------------------------------
(* The service under list requests of every page.                          *)

FilesList ==
    {XlsxFile(name_xlsx, Table(HeaderExact, <<RowB, RowAy>>)),
     XlsxFile(name_xlsx, Table(HeaderExact, <<RowN>>)),
     XlsFile(name_xls, Table(HeaderExact, <<RowA>>))}

Queries ==
    {[page |-> pg, per_page |-> pp, sort_by |-> sb, order |-> o] :
        pg \in 1..MaxPage, pp \in 1..MaxPerPage,
        sb \in {c_docno, c_upload_date}, o \in {"ASC", "DESC", ""}}
    \cup {[DefaultQuery EXCEPT !.sort_by = "name"],
          [DefaultQuery EXCEPT !.order = "UP"],
          [DefaultQuery EXCEPT !.page = 0],
          [DefaultQuery EXCEPT !.per_page = 0]}

NextList ==
    \/ \E f \in FilesList, env \in Env({"ok"}, {0}, {7}) : Upload(f, env)
    \/ \E q \in Queries, tie \in Ties : List(q, tie)

SpecList == Init /\ [][NextList]_vars

---------------------------------------------------------------------------
(* Two uploads at once: each request runs post() block by block, and the   *)
(* other may run between any two blocks (a connection is opened for the    *)
(* duplicate check and another for the write).                             *)

FilesRace ==
    {XlsxFile(name_xlsx, Table(HeaderExact, <<RowA>>)),
     XlsxFile(name_xlsx, Table(HeaderExact, <<RowAy>>)),
     XlsFile(name_xls, Table(HeaderExact, <<RowB>>))}

\* request p arrives with file f
Begin(p, f) ==
    /\ pc[p] = "idle"
    /\ pc' = [pc EXCEPT ![p] = "begin"]
    /\ loc' = [loc EXCEPT ![p] = Locals(f)]
    /\ UNCHANGED <<store, seqno, tempfs, now, ingested, purged, resp, obs>>

\* request p has run one block, with n its locals and the shared state after
Stepped(p, n) ==
    /\ pc' = [pc EXCEPT ![p] = n.l.pos]
    /\ loc' = [loc EXCEPT ![p] = n.l]
    /\ store' = n.sh.table
    /\ seqno' = n.sh.seq
    /\ tempfs' = n.sh.fs
    /\ ingested' = IF pc[p] = "write" THEN Ingest(ingested, n.l) ELSE ingested
    /\ UNCHANGED <<now, purged, resp, obs>>

\* request p runs its next block
Step(p, env) ==
    /\ pc[p] \in {"begin", "save", "read", "check", "write", "finally"}
    /\ Stepped(p, PostStep(loc[p], Shared(tempfs, store, seqno, now), env))

\* request p returns
Return(p) ==
    /\ pc[p] = "done"
    /\ pc' = [pc EXCEPT ![p] = "returned"]
    /\ resp' = loc[p].resp
    /\ obs' = Observe("upload", loc[p], NoQuery)
    /\ UNCHANGED <<store, seqno, tempfs, now, ingested, purged, loc>>

NextRace ==
    \/ \E p \in Procs, f \in FilesRace : Begin(p, f)
    \/ \E p \in Procs, env \in Env({"ok"}, {0}, Addrs) : Step(p, env)
    \/ \E p \in Procs : Return(p)
    \/ Tick

SpecRace == Init /\ [][NextRace]_vars

---------------------------------------------------------------------------
(* read_excel_file on its own, over every way the four readers can end.    *)

TableA == Table(HeaderExact, <<RowA>>)
TableB == Table(HeaderExact, <<RowB>>)
TableN == Table(HeaderExact, <<RowN>>)
TableY == Table(HeaderRaw, <<RowAy>>)

Contents ==
    {[bom |-> b, html |-> h, dflt |-> d, openpyxl |-> o, xlrd |-> x] :
        b \in BOOLEAN,
        h \in {Ok(<<TableA>>), Ok(<<TableY, TableA>>), Fail("No tables found")},
        d \in {Ok(<<TableB>>), Ok(<<TableN>>),
                Fail("Excel file format cannot be determined")},
        o \in {Ok(<<TableN>>), Fail("File is not a zip file")},
        x \in {Ok(<<TableY>>), Fail("Unsupported format, or corrupt file")}}

DecodePath == FilePath(name_xlsx)

InitDecode ==
    /\ store = <<>>
    /\ seqno = 0
    /\ tempfs \in {{[path |-> DecodePath, content |-> c]} : c \in Contents}
    /\ now = 0
    /\ ingested = <<>>
    /\ purged = FALSE
    /\ resp = NoResp
    /\ obs = Observe("none", Locals(NoFile), NoQuery)
    /\ pc = [p \in Procs |-> "idle"]
    /\ loc = [p \in Procs |-> Locals(NoFile)]

\* read_excel_file(path) is called
Decode(path) ==
    /\ resp' = [code |-> 0,
                read |-> IF Exists(tempfs, path)
                         THEN read_excel_file(TRUE, ReadFile(tempfs, path))
                         ELSE read_excel_file(FALSE, NaN)]
    /\ obs' = Observe("decode", Locals(NoFile), NoQuery)
    /\ UNCHANGED <<store, seqno, tempfs, now, ingested, purged, pc, loc>>

\* the file is removed
Unlink(path) ==
    /\ Exists(tempfs, path)
    /\ tempfs' = RemoveFile(tempfs, path)
    /\ UNCHANGED <<store, seqno, now, ingested, purged, resp, obs, pc, loc>>

NextDecode ==
    \/ Decode(DecodePath)
    \/ Unlink(DecodePath)

SpecDecode == InitDecode /\ [][NextDecode]_vars

---------------------------------------------------------------------------
(* The claims.                                                             *)

\* a step of Upload (Tick moves the clock, List and Purge leave another obs)
UploadStep == obs'.op = "upload" /\ now' = now

\* the business key of a stored record, each value trimmed
TrimmedKey(rec) ==
    Tuple([i \in 1..Len(key_columns) |->
              IF rec[key_columns[i]].k = "str"
              THEN Str(Strip(rec[key_columns[i]].s))
              ELSE rec[key_columns[i]]])

\* the stored records that share the business key of record j
SharingKey(table, j) ==
    {i \in 1..Len(table) : i # j /\ TrimmedKey(table[i]) = TrimmedKey(table[j])}

\* C1: in every reachable state no two stored records share the same
\* business key (docno, internaldocumentnumber, registrationdate,
\* sellerparty, purchaserparty), each value trimmed of surrounding whitespace.
C1_UniqueBusinessKeys ==
    \A j \in 1..Len(store) : SharingKey(store, j) = {}

\* the batches written since the last purge that hold the same key cells
SameBatch(keys, hist) == {k \in 1..Len(hist) : hist[k].keys = keys}

\* C2: an upload of a batch that was ingested and not purged since (the same
\* key cells, row by row) is rejected with the duplicate error that names the
\* file of the first upload, and the store holds as many records after it.
C2_ReuploadRejected ==
    [][(UploadStep /\ obs'.keys # <<>> /\ SameBatch(obs'.keys, ingested) # {})
         => /\ resp'.code = 500
            /\ resp'.error = "duplicate"
            /\ resp'.detail =
                 Str(ingested[FirstOf(SameBatch(obs'.keys, ingested))].file_name)
            /\ Len(store') = Len(store)]_vars

\* the errors post() returns before the bulk write
EarlyErrors == {"invalid_type", "decode", "empty", "missing_columns", "duplicate"}

\* C3: an upload that ends in an error before the bulk write (extension,
\* decode, zero rows, missing column) or that had a row flagged as duplicate
\* leaves the stored records exactly as they were.
C3_ErrorLeavesStore ==
    [][(UploadStep /\ (obs'.dup.is_duplicate
                        \/ (resp'.code # 200 /\ resp'.error \in EarlyErrors)))
         => store' = store]_vars

\* C3 witness: a batch was refused as duplicate although one of its rows has
\* a key no stored record has, and the store holds what it held
C3_PartialDuplicateRefused ==
    /\ obs.op = "upload"
    /\ resp.code = 500 /\ resp.error = "duplicate"
    /\ store # <<>>
    /\ \E r \in 1..Len(obs.keys) :
          \A j \in 1..Len(store) :
              \E i \in 1..Len(key_columns) :
                  store[j][key_columns[i]] # AsStrStripped(FillNa(obs.keys[r][i]))

\* C5: when an upload has returned after it started to write the file, the
\* file is no longer in the upload folder.
C5_TempFileRemoved ==
    (obs.op = "upload" /\ obs.started) => ~Exists(tempfs, obs.filepath)

\* C4: a successful upload of a batch of n rows adds exactly n records after
\* the records the store held, which it leaves as they were; each new record
\* has file_name, upload_date and data_hash populated and every column but the
\* integer id holds a string; the result reports rows_processed = n and
\* previews the first min(5, n) of the new records.
C4_SuccessAddsBatch ==
    [][(UploadStep /\ resp'.code = 200)
         => /\ Len(store') = Len(store) + Len(obs'.keys)
            /\ SubSeq(store', 1, Len(store)) = store
            /\ \A j \in (Len(store) + 1)..Len(store') :
                  /\ \A c \in TableColumns \ {c_id} : store'[j][c].k = "str"
                  /\ \A i \in 1..Len(provenance_columns) :
                        store'[j][provenance_columns[i]].s # <<>>
                  /\ store'[j][c_file_name] = Str(resp'.filename)
                  /\ store'[j][c_data_hash] # Str(PyStr(NoneV))
            /\ resp'.rows_processed = Len(obs'.keys)
            /\ Len(resp'.preview.rows) = Min(PreviewRows, Len(obs'.keys))
            /\ \A r \in 1..Len(resp'.preview.rows) :
                  \A i \in 1..Len(resp'.preview.columns) :
                      resp'.preview.rows[r][i]
                        = store'[Len(store) + r][resp'.preview.columns[i]]]_vars

\* C4 witness: a batch longer than the preview was added to a store that held
\* records, and the preview stops at five rows
C4_LongBatchAdded ==
    /\ obs.op = "upload" /\ resp.code = 200
    /\ resp.rows_processed > PreviewRows
    /\ Len(resp.preview.rows) = PreviewRows
    /\ Len(store) > resp.rows_processed

\* a step of Purge
PurgeStep == obs'.op = "purge" /\ now' = now

\* C6: a purge of a store of N records returns records_deleted = N and leaves
\* no record, and the first record written after it gets id 1.
C6_PurgeResets ==
    [][/\ PurgeStep => /\ resp'.code = 200
                       /\ resp'.records_deleted = Len(store)
                       /\ store' = <<>>
       /\ (UploadStep /\ ingested = <<>> /\ store' # store)
            => /\ store = <<>>
               /\ store'[1][c_id] = IntV(1)]_vars

\* C6 witness: records were purged and the one batch written since starts
\* at id 1
C6_FirstIdAfterPurge ==
    /\ purged
    /\ obs.op = "upload" /\ obs.wrote
    /\ Len(ingested) = 1
    /\ store # <<>> /\ store[1][c_id] = IntV(1)

\* a step of List
ListStep == obs'.op = "list" /\ now' = now

\* the least k with k * d >= n
CeilDiv(n, d) == CHOOSE k \in 0..n : k * d >= n /\ (k - 1) * d < n

\* the stored record a listed record shows
Shown(table, rec) == table[CHOOSE j \in 1..Len(table) : table[j][c_id] = rec[c_id]]

\* v comes strictly before w in the order asked for
Before(v, w, order) ==
    IF order = "DESC" THEN ValueLess(w, v) ELSE ValueLess(v, w)

\* the page of a list result is the slice of the stored records from offset
\* on, in some order sorted by q.sort_by: the records are stored ones, no two
\* the same, in sorted order, and each stands at a place its sort value allows
PageInOrder(data, table, q, offset) ==
    /\ \A i \in 1..Len(data) : \E j \in 1..Len(table) : table[j][c_id] = data[i][c_id]
    /\ \A i, k \in 1..Len(data) :
          i < k => /\ data[i][c_id] # data[k][c_id]
                   /\ ~Before(Shown(table, data[k])[q.sort_by],
                              Shown(table, data[i])[q.sort_by], q.order)
    /\ \A i \in 1..Len(data) :
          /\ Cardinality({j \in 1..Len(table) :
                Before(table[j][q.sort_by], Shown(table, data[i])[q.sort_by], q.order)})
               <= offset + i - 1
          /\ Cardinality({j \in 1..Len(table) :
                ~Before(Shown(table, data[i])[q.sort_by], table[j][q.sort_by], q.order)})
               >= offset + i

\* C7: for page >= 1 and per_page >= 1 (and a column to sort by) on a store
\* of T records, list returns total = T, total_pages = ceil(T / per_page) and
\* min(per_page, max(0, T - (page-1)*per_page)) records, those at offset
\* (page-1)*per_page in the sort order asked for; the store is left as it was.
C7_ListPage ==
    [][ListStep
         => /\ store' = store
            /\ (obs'.q.page >= 1 /\ obs'.q.per_page >= 1
                  /\ obs'.q.sort_by \in TableColumns
                  /\ obs'.q.order \in {"ASC", "DESC", ""})
                 => /\ resp'.code = 200
                    /\ resp'.total = Len(store)
                    /\ resp'.total_pages = CeilDiv(Len(store), obs'.q.per_page)
                    /\ Len(resp'.data)
                         = Min(obs'.q.per_page,
                               Max(0, Len(store) - (obs'.q.page - 1) * obs'.q.per_page))
                    /\ PageInOrder(resp'.data, store, obs'.q,
                                   (obs'.q.page - 1) * obs'.q.per_page)]_vars

\* C7 witness: the last page of a store of three records, two to the page,
\* holds one record
C7_LastPageShort ==
    /\ obs.op = "list" /\ resp.code = 200
    /\ Len(store) = 3 /\ obs.q.per_page = 2 /\ obs.q.page = 2
    /\ resp.total_pages = 2 /\ Len(resp.data) = 1

\* C8: nothing in the write or in the schema looks at the keys stored since
\* the request's duplicate check: a request that reaches the bulk write with
\* columns the table has persists its whole batch, whatever the store holds
\* by then.
C8_WriteIgnoresStore ==
    [][\A p \in Procs :
          (pc[p] = "write" /\ pc'[p] # "write"
             /\ Range(loc[p].df.columns) \subseteq TableColumns)
            => /\ loc'[p].wrote
               /\ Len(store') = Len(store) + Len(loc[p].df.rows)]_vars

\* C8 witness: two requests with the same business key both passed the
\* duplicate check with nothing found, both wrote, and the store holds
\* records that share a key
C8_BothPersisted ==
    /\ \A p \in Procs : /\ pc[p] \in {"finally", "done", "returned"}
                        /\ loc[p].wrote
                        /\ loc[p].dup.kind = "none"
    /\ BatchKeys(loc[1].df) = BatchKeys(loc[2].df)
    /\ \E j \in 1..Len(store) : SharingKey(store, j) # {}

\* the readers read_excel_file is to try on a file, in order
Strategies(content) ==
    (IF content.bom THEN <<"html">> ELSE <<>>) \o <<"default", "openpyxl", "xlrd">>

\* what a reader makes of the file, and how its failure is reported
OutcomeOf(content, name) ==
    CASE name = "html" -> content.html
      [] name = "default" -> content.dflt
      [] name = "openpyxl" -> content.openpyxl
      [] OTHER -> content.xlrd
LabelOf(name) ==
    CASE name = "html" -> "UTF-16 HTML error: "
      [] name = "default" -> "Default engine error: "
      [] name = "openpyxl" -> "openpyxl error: "
      [] OTHER -> "xlrd error: "

\* the readers that accept the file, by their place in the order
Accepting(content) ==
    {i \in 1..Len(Strategies(content)) : OutcomeOf(content, Strategies(content)[i]).ok}

\* the result of read_excel_file on a file that is there is what the order
\* of the strategies prescribes
DecodedInOrder(r, content) ==
    IF Accepting(content) # {}
    THEN /\ r.ok
         /\ r.tried = SubSeq(Strategies(content), 1, FirstOf(Accepting(content)))
         /\ r.df = Head(OutcomeOf(content,
                      Strategies(content)[FirstOf(Accepting(content))]).tables)
    ELSE /\ ~r.ok
         /\ r.tried = Strategies(content)
         /\ r.msg = "Failed to read Excel file. Errors: "
                    \o JoinText([i \in 1..Len(Strategies(content)) |->
                                   LabelOf(Strategies(content)[i])
                                   \o OutcomeOf(content, Strategies(content)[i]).msg],
                                "; ")

\* C9: the decoder runs the UTF-16 HTML reader (behind a byte-order mark),
\* the default engine, openpyxl and xlrd in that order, returns the table of
\* the first that succeeds and runs none after it; when all fail it raises
\* the error that joins the messages of the attempts.
C9_FirstSuccessWins ==
    (obs.op = "decode" /\ Exists(tempfs, DecodePath))
      => DecodedInOrder(resp.read, ReadFile(tempfs, DecodePath))

\* C9 witness: the default engine failed, openpyxl succeeded, and xlrd, which
\* would have succeeded too, was not run
C9_ThirdStrategyReturned ==
    /\ obs.op = "decode" /\ Exists(tempfs, DecodePath)
    /\ ~ReadFile(tempfs, DecodePath).dflt.ok
    /\ ReadFile(tempfs, DecodePath).xlrd.ok
    /\ resp.read.ok
    /\ resp.read.tried = <<"default", "openpyxl">>

\* C10: when a query of the duplicate check fails, the check returns the flag
\* false with the failure's message, and the upload does not stop at the
\* duplicate step: it goes on to the bulk write, which persists the batch
\* unless the write itself fails.
C10_CheckFailsOpen ==
    [][(UploadStep /\ obs'.dup.kind = "store_error")
         => /\ ~obs'.dup.is_duplicate
            /\ obs'.dup.message = QueryError
            /\ \/ /\ resp'.code = 200
                  /\ obs'.wrote
                  /\ Len(store') = Len(store) + Len(obs'.keys)
               \/ /\ resp'.code = 500
                  /\ resp'.error = "store"]_vars

\* C10 witness: a batch whose key is stored was accepted because the query
\* failed
C10_StoredKeyAccepted ==
    /\ obs.op = "upload" /\ obs.dup.kind = "store_error" /\ obs.wrote
    /\ \E j \in 1..Len(store) :
          /\ store[j][c_file_name] = Str(resp.filename)
          /\ \E i \in SharingKey(store, j) : i < j /\ store[i][c_docno] # Str(<<>>)

=============================================================================
